---- MODULE Spec2Model ----
(***************************************************************************)
(* State-machine model of the embedding gateway                            *)
(* (src/scripts/clip_http_gateway.py): the startup provider chain          *)
(* (lifespan and the three initializers), the transient-object detector,   *)
(* the mask compositor, the ROI inpainting pipeline, and the /encode,      *)
(* /encode/inpainted, /encode/text, /detect/people and /inpaint/preview    *)
(* request handlers with the embedding extraction.  DilateSpec exercises   *)
(* _dilate_mask_binary on its own, DetectSpec _get_yolo_person_masks,      *)
(* PreviewSpec the /inpaint/preview handler.                               *)
(*                                                                         *)
(* Python None is modelled as FALSE for the model singletons (a loaded     *)
(* object is TRUE) and as the empty tuple for optional values.             *)
(***************************************************************************)
EXTENDS Integers, Sequences, FiniteSets, TLC

VARIABLES
    lifespan_pc,            \* position inside lifespan(): which initializer is next
    attempted,              \* initializers called so far, in call order
    dinov2_success,         \* lifespan local: "unset" | "true" | "false"
    vitl14_success,         \* lifespan local
    clip_success,           \* lifespan local
    dinov2_model,           \* module global, FALSE = None
    dinov2_processor,       \* module global
    clip_vitl14_model,      \* module global
    clip_vitl14_preprocess, \* module global
    clip_vitl14_tokenizer,  \* module global
    clip_client,            \* module global
    yolo_model,             \* module global _yolo_model
    sd_inpaint_pipeline,    \* module global _sd_inpaint_pipeline
    req,                    \* the request being handled (one at a time on the event loop)
    dilate_call,            \* arguments and results of _dilate_mask_binary called on its own
    detect_call             \* argument and result of _get_yolo_person_masks called on its own

provider == <<dinov2_model, dinov2_processor, clip_vitl14_model,
              clip_vitl14_preprocess, clip_vitl14_tokenizer, clip_client,
              yolo_model, sd_inpaint_pipeline>>
startup == <<lifespan_pc, attempted, dinov2_success, vitl14_success, clip_success>>
vars == <<lifespan_pc, attempted, dinov2_success, vitl14_success, clip_success,
          dinov2_model, dinov2_processor, clip_vitl14_model,
          clip_vitl14_preprocess, clip_vitl14_tokenizer, clip_client,
          yolo_model, sd_inpaint_pipeline, req, dilate_call, detect_call>>

(***************************************************************************)
(* Bounds of the model.                                                    *)
(***************************************************************************)
ImgW == 9          \* width of the large uploaded images
ImgH == 2          \* height of the large uploaded images
MaxInst == 2       \* most instances the detector reports for one image
EmbDim == 2        \* length of an embedding vector
MaskW == 3         \* widest mask passed to _dilate_mask_binary on its own
MaskH == 2         \* highest such mask
MaxKernel == 4     \* largest kernel_size passed to it

None == <<>>
Some(x) == <<x>>

Min2(a, b) == IF a < b THEN a ELSE b
Max2(a, b) == IF a > b THEN a ELSE b
RECURSIVE SetMin(_)
SetMin(S) == LET x == CHOOSE y \in S : TRUE
             IN IF S = {x} THEN x ELSE Min2(x, SetMin(S \ {x}))
RECURSIVE SetMax(_)
SetMax(S) == LET x == CHOOSE y \in S : TRUE
             IN IF S = {x} THEN x ELSE Max2(x, SetMax(S \ {x}))

(***************************************************************************)
(* Startup: lifespan() and the initializers it calls.                      *)
(***************************************************************************)

\* Ways initialize_dinov2_model() can end.  "unavailable": the transformers
\* import failed; "model_fail": Dinov2Model.from_pretrained raises;
\* "processor_fail": AutoImageProcessor.from_pretrained raises after the
\* model global was assigned; "to_fail": .to()/.eval() raises after both
\* globals were assigned; "ok": returns True.
Dinov2Outcomes == {"unavailable", "model_fail", "processor_fail", "to_fail", "ok"}

\* Ways initialize_vitl14_model() can end.  "create_fail": both
\* create_model_and_transforms calls raise; "tokenizer_fail": get_tokenizer
\* raises after model and preprocess were assigned.
Vitl14Outcomes == {"unavailable", "create_fail", "tokenizer_fail", "ok"}

ClipOutcomes == {"fail", "ok"}

BoolStr(b) == IF b THEN "true" ELSE "false"

\* Return value of initialize_dinov2_model for an outcome.
Dinov2Returns(o) == o = "ok"
\* Return value of initialize_vitl14_model for an outcome.
Vitl14Returns(o) == o = "ok"

initialize_dinov2_model(o) ==
    /\ dinov2_model' = (o \in {"processor_fail", "to_fail", "ok"})
    /\ dinov2_processor' = (o \in {"to_fail", "ok"})
    /\ dinov2_success' = BoolStr(Dinov2Returns(o))

initialize_vitl14_model(o) ==
    /\ clip_vitl14_model' = (o \in {"tokenizer_fail", "ok"})
    /\ clip_vitl14_preprocess' = (o \in {"tokenizer_fail", "ok"})
    /\ clip_vitl14_tokenizer' = (o = "ok")
    /\ vitl14_success' = BoolStr(Vitl14Returns(o))

initialize_clip_client(o) ==
    /\ clip_client' = (o = "ok")
    /\ clip_success' = BoolStr(o = "ok")

\* lifespan, line 698: dinov2_success = initialize_dinov2_model()
LifespanDinov2 ==
    /\ lifespan_pc = "dinov2"
    /\ \E o \in Dinov2Outcomes :
         /\ initialize_dinov2_model(o)
         /\ lifespan_pc' = IF Dinov2Returns(o) THEN "inpaint" ELSE "vitl14"
    /\ attempted' = Append(attempted, "dinov2")
    /\ UNCHANGED <<vitl14_success, clip_success, clip_vitl14_model,
                   clip_vitl14_preprocess, clip_vitl14_tokenizer, clip_client,
                   yolo_model, sd_inpaint_pipeline, req, dilate_call, detect_call>>

\* A lifespan that goes on to the remote client whatever ViT-L/14 returned.
LifespanVitl14Always ==
    /\ lifespan_pc = "vitl14"
    /\ \E o \in Vitl14Outcomes : initialize_vitl14_model(o)
    /\ lifespan_pc' = "clip"
    /\ attempted' = Append(attempted, "vitl14")
    /\ UNCHANGED <<dinov2_success, clip_success, dinov2_model, dinov2_processor,
                   clip_client, yolo_model, sd_inpaint_pipeline, req, dilate_call, detect_call>>

\* lifespan, line 703: vitl14_success = initialize_vitl14_model()
LifespanVitl14 ==
    /\ lifespan_pc = "vitl14"
    /\ \E o \in Vitl14Outcomes :
         /\ initialize_vitl14_model(o)
         /\ lifespan_pc' = IF Vitl14Returns(o) THEN "inpaint" ELSE "clip"
    /\ attempted' = Append(attempted, "vitl14")
    /\ UNCHANGED <<dinov2_success, clip_success, dinov2_model, dinov2_processor,
                   clip_client, yolo_model, sd_inpaint_pipeline, req, dilate_call, detect_call>>

\* lifespan, line 706: clip_success = initialize_clip_client()
LifespanClip ==
    /\ lifespan_pc = "clip"
    /\ \E o \in ClipOutcomes : initialize_clip_client(o)
    /\ lifespan_pc' = "inpaint"
    /\ attempted' = Append(attempted, "clip")
    /\ UNCHANGED <<dinov2_success, vitl14_success, dinov2_model, dinov2_processor,
                   clip_vitl14_model, clip_vitl14_preprocess,
                   clip_vitl14_tokenizer, yolo_model, sd_inpaint_pipeline, req, dilate_call, detect_call>>

\* initialize_inpaint_models: each of the detector and the inpainting
\* pipeline either loads or stays None (class missing or load raised).
initialize_inpaint_models(yolo_ok, sd_ok) ==
    /\ yolo_model' = yolo_ok
    /\ sd_inpaint_pipeline' = sd_ok

\* lifespan, lines 713-719: the optional inpainting models, then yield.
LifespanInpaint ==
    /\ lifespan_pc = "inpaint"
    /\ \E yolo_ok \in BOOLEAN, sd_ok \in BOOLEAN :
         initialize_inpaint_models(yolo_ok, sd_ok)
    /\ lifespan_pc' = "serving"
    /\ UNCHANGED <<attempted, dinov2_success, vitl14_success, clip_success,
                   dinov2_model, dinov2_processor, clip_vitl14_model,
                   clip_vitl14_preprocess, clip_vitl14_tokenizer, clip_client,
                   req, dilate_call, detect_call>>

(***************************************************************************)
(* Images and masks.  A pixel is <<x, y>>; an image carries its PIL mode,  *)
(* its size and one tuple of channel values per pixel; a mask carries its  *)
(* size and one value per pixel.                                           *)
(***************************************************************************)
PixelsOf(w, h) == (0 .. w - 1) \X (0 .. h - 1)

\* Sizes <<width, height>> of the uploaded images: a large one and a one
\* pixel wide one.
Sizes == {<<ImgW, ImgH>>, <<1, 2>>}

NewImage(mode, w, h, colour) ==
    [mode |-> mode, w |-> w, h |-> h, px |-> [p \in PixelsOf(w, h) |-> colour]]

\* The files a client can upload, as PIL opens them.
Uploads ==
    { NewImage("RGB", sz[1], sz[2], <<10, 20, 30>>) : sz \in Sizes }
    \cup { NewImage("L", ImgW, ImgH, <<40>>) }

\* PIL Image.convert("RGB"): grey is replicated, RGB is copied.
ConvertRGB(im) ==
    IF im.mode = "RGB" THEN im
    ELSE [mode |-> "RGB", w |-> im.w, h |-> im.h,
          px |-> [p \in PixelsOf(im.w, im.h) |-> <<im.px[p][1], im.px[p][1], im.px[p][1]>>]]

\* _np_image_from_bytes, lines 274-278
np_image_from_bytes(image_bytes) ==
    IF image_bytes.mode # "RGB" THEN ConvertRGB(image_bytes) ELSE image_bytes

\* np.zeros((h, w), dtype=np.uint8)
ZeroMask(w, h) == [w |-> w, h |-> h, v |-> [p \in PixelsOf(w, h) |-> 0]]
Foreground(mask) == {p \in PixelsOf(mask.w, mask.h) : mask.v[p] > 0}

(***************************************************************************)
(* _dilate_mask_binary, lines 281-295.                                     *)
(***************************************************************************)
Clamp(v, lo, hi) == IF v < lo THEN lo ELSE IF v > hi THEN hi ELSE v

\* cv2.erode in place of cv2.dilate: the minimum over the window.
DilateCv2Erode(mask, k) ==
    LET fg == Foreground(mask)
    IN [mask EXCEPT !.v =
          [p \in PixelsOf(mask.w, mask.h) |->
              IF \A q \in PixelsOf(mask.w, mask.h) :
                    ( /\ q[1] - p[1] + (k \div 2) \in 0 .. k - 1
                      /\ q[2] - p[2] + (k \div 2) \in 0 .. k - 1 ) => q \in fg
              THEN 255 ELSE 0]]

\* cv2.dilate with a k x k kernel of ones anchored at its centre k \div 2:
\* the maximum over the window, pixels outside the image not contributing.
DilateCv2(mask, k) ==
    LET fg == Foreground(mask)
    IN [mask EXCEPT !.v =
          [p \in PixelsOf(mask.w, mask.h) |->
              IF \E q \in fg :
                    /\ q[1] - p[1] + (k \div 2) \in 0 .. k - 1
                    /\ q[2] - p[2] + (k \div 2) \in 0 .. k - 1
              THEN 255 ELSE 0]]

\* The fallback with the loops running over range(2 * pad + 1).
DilateFallbackSymmetric(mask, k) ==
    LET pad == k \div 2
        cols == [x \in 0 .. mask.w - 1 |->
                    {Clamp(x + dx - pad, 0, mask.w - 1) : dx \in 0 .. 2 * pad}]
        rows == [y \in 0 .. mask.h - 1 |->
                    {Clamp(y + dy - pad, 0, mask.h - 1) : dy \in 0 .. 2 * pad}]
    IN [mask EXCEPT !.v =
          [p \in PixelsOf(mask.w, mask.h) |->
              IF \E qx \in cols[p[1]], qy \in rows[p[2]] : mask.v[<<qx, qy>>] > 0
              THEN 255 ELSE 0]]

\* The numpy fallback: edge padding of pad = k \div 2, then OR over the
\* k x k shifted windows padded[dy : dy + h, dx : dx + w]; padded[j][i] is
\* the mask at the clamped position (i - pad, j - pad).
DilateFallback(mask, k) ==
    LET pad == k \div 2
        cols == [x \in 0 .. mask.w - 1 |->
                    {Clamp(x + dx - pad, 0, mask.w - 1) : dx \in 0 .. k - 1}]
        rows == [y \in 0 .. mask.h - 1 |->
                    {Clamp(y + dy - pad, 0, mask.h - 1) : dy \in 0 .. k - 1}]
    IN [mask EXCEPT !.v =
          [p \in PixelsOf(mask.w, mask.h) |->
              IF \E qx \in cols[p[1]], qy \in rows[p[2]] : mask.v[<<qx, qy>>] > 0
              THEN 255 ELSE 0]]

dilate_mask_binary(mask, kernel_size, cv2_ok) ==
    IF cv2_ok THEN DilateCv2(mask, kernel_size) ELSE DilateFallback(mask, kernel_size)

\* The uint8 masks given to _dilate_mask_binary on its own: every size up
\* to MaskW x MaskH, every foreground pattern, the foreground at level 1
\* or at level 255.
MaskLevels == {1, 255}
DilateMasks ==
    UNION { { [w |-> w, h |-> h,
               v |-> [p \in PixelsOf(w, h) |-> IF p \in fg THEN level ELSE 0]] :
                  fg \in SUBSET PixelsOf(w, h), level \in MaskLevels } :
            w \in 1 .. MaskW, h \in 1 .. MaskH }

NoCall == [pc |-> "none", mask |-> None, kernel_size |-> 0, cv2_ok |-> FALSE,
           out |-> None, again |-> None]

(***************************************************************************)
(* _get_yolo_person_masks, lines 298-375.                                  *)
(***************************************************************************)
target_classes == {0, 24, 25, 26, 28, 67, 73, 76}

\* Confidences are in hundredths: 0.5 for person, 0.4 for the rest.
min_confidence(class_id) == IF class_id = 0 THEN 50 ELSE 40

\* The acceptance test with >= in place of >.
AcceptedAtThreshold(inst) ==
    /\ inst.cls \in target_classes
    /\ inst.conf >= min_confidence(inst.cls)

Accepted(inst) ==
    /\ inst.cls \in target_classes
    /\ inst.conf > min_confidence(inst.cls)

\* Python slice bounds a:b on an axis of length n.
SliceIdx(i, n) == IF i < 0 THEN Max2(i + n, 0) ELSE Min2(i, n)
InSlice(v, a, b, n) == SliceIdx(a, n) <= v /\ v < SliceIdx(b, n)

\* Lines 363-365: mask = zeros; mask[y1:y2, x1:x2] = 255
BoxMask(xyxy, w, h) ==
    [w |-> w, h |-> h,
     v |-> [p \in PixelsOf(w, h) |->
              IF InSlice(p[1], xyxy[1], xyxy[3], w) /\ InSlice(p[2], xyxy[2], xyxy[4], h)
              THEN 255 ELSE 0]]

\* Lines 340-347.  A mask of the image's shape holds probabilities (here in
\* thousandths) and is scaled by 255 and truncated to uint8; a mask of
\* another shape is scaled and resized by PIL to the image's size, data
\* then holding the grey levels of the resized mask.
InstanceMask(shape, w, h) ==
    [w |-> w, h |-> h,
     v |-> IF shape.same
           THEN [p \in PixelsOf(w, h) |-> (shape.data[p] * 255) \div 1000]
           ELSE shape.data]

\* The mask appended for one accepted instance.
MaskOf(inst, has_masks, w, h) ==
    IF has_masks THEN InstanceMask(inst.shape, w, h) ELSE BoxMask(inst.shape.xyxy, w, h)

RECURSIVE CollectMasks(_, _, _, _)
CollectMasks(insts, has_masks, w, h) ==
    IF insts = <<>> THEN <<>>
    ELSE IF Accepted(Head(insts))
         THEN <<MaskOf(Head(insts), has_masks, w, h)>>
                 \o CollectMasks(Tail(insts), has_masks, w, h)
         ELSE CollectMasks(Tail(insts), has_masks, w, h)

\* Whether the detector call or the loop over its instances raises: the
\* call itself, or reading the mask or the box of an accepted instance.
DetectRaises(det) ==
    \/ det.raises
    \/ \E i \in 1 .. Len(det.insts) : Accepted(det.insts[i]) /\ det.insts[i].bad

\* _get_yolo_person_masks without its except clause.
get_yolo_person_masks_uncaught(img, det) ==
    IF ~yolo_model THEN [raised |-> FALSE, masks |-> <<>>]
    ELSE IF DetectRaises(det) THEN [raised |-> TRUE, masks |-> <<>>]
    ELSE [raised |-> FALSE, masks |-> CollectMasks(det.insts, det.has_masks, img.w, img.h)]

\* _get_yolo_person_masks for the decoded image img when the detector
\* answers det.  raised: whether an exception leaves the function; masks:
\* the returned list.  Line 300 returns [] when no detector is loaded and
\* lines 373-375 turn every exception into [].
get_yolo_person_masks(img, det) ==
    IF ~yolo_model THEN [raised |-> FALSE, masks |-> <<>>]
    ELSE IF DetectRaises(det) THEN [raised |-> FALSE, masks |-> <<>>]
    ELSE [raised |-> FALSE, masks |-> CollectMasks(det.insts, det.has_masks, img.w, img.h)]

(***************************************************************************)
(* What the external detector can answer for an image of size w x h.       *)
(***************************************************************************)
\* Per-instance mask data together with the instance's box:
\* probability 1.0 on column 0, in the image's shape.
ColumnShape(w, h) ==
    [same |-> TRUE,
     data |-> [p \in PixelsOf(w, h) |-> IF p[1] = 0 THEN 1000 ELSE 0],
     xyxy |-> <<0, 0, 1, h>>]

\* Probability 0.003 everywhere (truncates to 0), with an empty box.
FaintShape(w, h) ==
    [same |-> TRUE,
     data |-> [p \in PixelsOf(w, h) |-> 3],
     xyxy |-> <<1, 1, 1, 1>>]

\* A mask of another shape, grey after the resize, on the last pixel only.
CornerShape(w, h) ==
    [same |-> FALSE,
     data |-> [p \in PixelsOf(w, h) |-> IF p = <<w - 1, h - 1>> THEN 128 ELSE 0],
     xyxy |-> <<w - 1, h - 1, w, h>>]

MaskShapes(w, h) == {ColumnShape(w, h), FaintShape(w, h), CornerShape(w, h)}

\* <<class id, confidence in hundredths>>: person at its threshold,
\* backpack above and at its threshold, bicycle (not a target).
ClassConfs == {<<0, 50>>, <<24, 50>>, <<24, 40>>, <<1, 60>>}

\* The instances the detector can report: a confident person of every
\* shape, the other class/confidence pairs on the column, and a confident
\* person whose mask or box cannot be read.
Instances(w, h) ==
    { [cls |-> 0, conf |-> 60, shape |-> sh, bad |-> FALSE] : sh \in MaskShapes(w, h) }
    \cup
    { [cls |-> cc[1], conf |-> cc[2], shape |-> ColumnShape(w, h), bad |-> FALSE] :
        cc \in ClassConfs }
    \cup
    { [cls |-> 0, conf |-> 60, shape |-> ColumnShape(w, h), bad |-> TRUE] }

SeqsUpTo(S, n) == UNION { [1 .. k -> S] : k \in 0 .. n }

DetectorAnswers(w, h) ==
    { [raises |-> TRUE, has_masks |-> FALSE, insts |-> <<>>] }
    \cup
    { [raises |-> FALSE, has_masks |-> hm, insts |-> is] :
        hm \in BOOLEAN, is \in SeqsUpTo(Instances(w, h), MaxInst) }

AcceptedCount(det) == Cardinality({i \in 1 .. Len(det.insts) : Accepted(det.insts[i])})

(***************************************************************************)
(* What the detector is made to answer when _get_yolo_person_masks is      *)
(* exercised on its own, for an image of MaskW x MaskH pixels.             *)
(***************************************************************************)
\* Class ids: the eight target classes and bicycle (1), which is not one.
DetClasses == target_classes \cup {1}

\* Confidences in hundredths, at and just above the two thresholds.
DetConfs == {40, 41, 50, 51}

\* Instances of every class and confidence, all with the same mask and box.
RuleInstances(w, h) ==
    { [cls |-> c, conf |-> cf, shape |-> ColumnShape(w, h), bad |-> FALSE] :
        c \in DetClasses, cf \in DetConfs }

\* Boxes <<x1, y1, x2, y2>> with x1 <= x2 and y1 <= y2 whose coordinates
\* run from two pixels before the image to one pixel beyond it.
Boxes(w, h) ==
    { <<x1, y1, x2, y2>> : x1 \in -2 .. w + 1, y1 \in -2 .. h + 1,
                           x2 \in -2 .. w + 1, y2 \in -2 .. h + 1 }
      \cap { b \in (-2 .. w + 1) \X (-2 .. h + 1) \X (-2 .. w + 1) \X (-2 .. h + 1) :
               b[1] <= b[3] /\ b[2] <= b[4] }

\* A confident person with the given box and no mask.
BoxInstance(xyxy, w, h) ==
    [cls |-> 0, conf |-> 60,
     shape |-> [same |-> TRUE, data |-> [p \in PixelsOf(w, h) |-> 0], xyxy |-> xyxy],
     bad |-> FALSE]

\* Up to MaxInst instances with or without masks, or one boxed person.
DetectCallAnswers(w, h) ==
    { [raises |-> FALSE, has_masks |-> hm, insts |-> is] :
        hm \in BOOLEAN, is \in SeqsUpTo(RuleInstances(w, h), MaxInst) }
    \cup
    { [raises |-> FALSE, has_masks |-> FALSE, insts |-> <<BoxInstance(b, w, h)>>] :
        b \in Boxes(w, h) }

NoDetectCall == [pc |-> "none", img |-> None, det |-> None, out |-> None]

(***************************************************************************)
(* inpaint_people_from_image_bytes, lines 462-564.                         *)
(***************************************************************************)
UnionKernel == 11      \* kernel_size passed at line 479

\* Lines 476-478: union_mask |= (m > 0) * 255 for every candidate mask.
RECURSIVE UnionMasks(_, _)
UnionMasks(acc, masks) ==
    IF masks = <<>> THEN acc
    ELSE UnionMasks([acc EXCEPT !.v =
                        [p \in PixelsOf(acc.w, acc.h) |->
                            IF acc.v[p] > 0 \/ Head(masks).v[p] > 0 THEN 255 ELSE 0]],
                    Tail(masks))

\* A compositor that assigns each mask instead of OR-ing it in.
ComposeMaskLast(img, masks, cv2_ok) ==
    dilate_mask_binary(IF masks = <<>> THEN ZeroMask(img.w, img.h)
                       ELSE UnionMasks(ZeroMask(img.w, img.h), <<masks[Len(masks)]>>),
                       UnionKernel, cv2_ok)

\* A compositor that takes the per-instance masks as they are: the maximum
\* of their values, neither binarized nor dilated.
ComposeMaskRaw(img, masks, cv2_ok) ==
    [w |-> img.w, h |-> img.h,
     v |-> [p \in PixelsOf(img.w, img.h) |->
              SetMax({0} \cup {masks[i].v[p] : i \in 1 .. Len(masks)})]]

\* Lines 476-479: the composite mask handed to the inpainting stage.
ComposeMask(img, masks, cv2_ok) ==
    dilate_mask_binary(UnionMasks(ZeroMask(img.w, img.h), masks), UnionKernel, cv2_ok)

\* Line 497: pad = int(0.12 * max(width, height))
RoiPad(w, h) == (12 * Max2(w, h)) \div 100

\* Lines 490-501: the padded, clamped ROI <<x1, y1, x2, y2>> of a mask with
\* foreground.
RoiOf(mask) ==
    LET xs == {p[1] : p \in Foreground(mask)}
        ys == {p[2] : p \in Foreground(mask)}
        pad == RoiPad(mask.w, mask.h)
    IN <<Max2(0, SetMin(xs) - pad),
         Max2(0, SetMin(ys) - pad),
         Min2(mask.w, SetMax(xs) + pad),
         Min2(mask.h, SetMax(ys) + pad)>>

InRoi(p, roi) == roi[1] <= p[1] /\ p[1] < roi[3] /\ roi[2] <= p[2] /\ p[2] < roi[4]

\* PIL cannot resize to a box without width or height (line 539 at the latest).
Degenerate(roi) == roi[3] - roi[1] < 1 \/ roi[4] - roi[2] < 1

\* PIL paste through a mask: per-channel blend of destination and source.
Blend(dst, src, a) == [c \in 1 .. 3 |-> (src[c] * a + dst[c] * (255 - a)) \div 255]

\* A paste whose box includes column x2 and row y2.
CompositeWide(img, roi, out_colour, feather) ==
    [img EXCEPT !.px =
        [p \in PixelsOf(img.w, img.h) |->
            IF roi[1] <= p[1] /\ p[1] <= roi[3] /\ roi[2] <= p[2] /\ p[2] <= roi[4]
            THEN Blend(img.px[p], out_colour, feather)
            ELSE img.px[p]]]

\* Lines 542-546: paste the regenerated ROI into a copy of the full image
\* with the feathered mask as weight.
Composite(img, roi, out_colour, feather) ==
    [img EXCEPT !.px =
        [p \in PixelsOf(img.w, img.h) |->
            IF InRoi(p, roi) THEN Blend(img.px[p], out_colour, feather)
            ELSE img.px[p]]]

\* Colours the regenerated ROI can have, and blend weights the feathered
\* mask can have (both come from external libraries).
SdColours == {<<200, 200, 200>>}
FeatherLevels == {128, 255}

\* Where the inner try block (lines 484-554) can raise: nowhere, before the
\* pipeline call (crop, resize), in the pipeline call, or after it
\* (resize back, feather, paste).
FailPoints == {"none", "pre", "call", "post"}

\* The pipeline with the emptiness test of line 491 placed after the
\* pipeline call.
InpaintFromMasksLateCheck(img, masks, union_mask, fail_at, out_colour, feather) ==
    IF masks = <<>>
    THEN [result |-> None, raised |-> FALSE, sd_called |-> FALSE, roi |-> None,
          img_after |-> Some(img)]
    ELSE IF ~sd_inpaint_pipeline
    THEN [result |-> None, raised |-> FALSE, sd_called |-> FALSE, roi |-> None,
          img_after |-> Some(img)]
    ELSE IF Foreground(union_mask) = {}
    THEN [result |-> None, raised |-> FALSE, sd_called |-> TRUE, roi |-> None,
          img_after |-> Some(img)]
    ELSE LET roi == RoiOf(union_mask)
             fail == IF Degenerate(roi) /\ fail_at = "none" THEN "post" ELSE fail_at
         IN [result |-> IF fail = "none"
                        THEN Some(Composite(img, roi, out_colour, feather))
                        ELSE None,
             raised |-> FALSE,
             sd_called |-> fail # "pre",
             roi |-> Some(roi),
             img_after |-> Some(img)]

\* The pipeline without the except clauses of lines 552 and 562.
InpaintFromMasksUncaught(img, masks, union_mask, fail_at, out_colour, feather) ==
    IF masks = <<>>
    THEN [result |-> None, raised |-> FALSE, sd_called |-> FALSE, roi |-> None,
          img_after |-> Some(img)]
    ELSE IF ~sd_inpaint_pipeline
    THEN [result |-> None, raised |-> FALSE, sd_called |-> FALSE, roi |-> None,
          img_after |-> Some(img)]
    ELSE IF Foreground(union_mask) = {}
    THEN [result |-> None, raised |-> FALSE, sd_called |-> FALSE, roi |-> None,
          img_after |-> Some(img)]
    ELSE LET roi == RoiOf(union_mask)
             fail == IF Degenerate(roi) /\ fail_at = "none" THEN "post" ELSE fail_at
         IN [result |-> IF fail = "none"
                        THEN Some(Composite(img, roi, out_colour, feather))
                        ELSE None,
             raised |-> fail # "none",
             sd_called |-> fail # "pre",
             roi |-> Some(roi),
             img_after |-> Some(img)]

\* Lines 472-564 for the decoded image img, the detector's masks and the
\* composite mask union_mask built from them.  result: the returned PIL
\* image or None; raised: whether an exception leaves the function (both
\* try blocks catch everything); sd_called: whether the inpainting pipeline
\* was invoked; roi: the ROI that was cropped; img_after: the decoded input
\* array when the function returns (the paste at line 546 goes into the
\* copy made at line 542).
InpaintFromMasks(img, masks, union_mask, fail_at, out_colour, feather) ==
    IF masks = <<>>
    THEN [result |-> None, raised |-> FALSE, sd_called |-> FALSE, roi |-> None,
          img_after |-> Some(img)]
    ELSE IF ~sd_inpaint_pipeline
    THEN [result |-> None, raised |-> FALSE, sd_called |-> FALSE, roi |-> None,
          img_after |-> Some(img)]
    ELSE IF Foreground(union_mask) = {}
    THEN [result |-> None, raised |-> FALSE, sd_called |-> FALSE, roi |-> None,
          img_after |-> Some(img)]
    ELSE LET roi == RoiOf(union_mask)
             fail == IF Degenerate(roi) /\ fail_at = "none" THEN "post" ELSE fail_at
         IN [result |-> IF fail = "none"
                        THEN Some(Composite(img, roi, out_colour, feather))
                        ELSE None,
             raised |-> FALSE,
             sd_called |-> fail # "pre",
             roi |-> Some(roi),
             img_after |-> Some(img)]

(***************************************************************************)
(* Embedding backends and the extraction of the embedding.                 *)
(***************************************************************************)
\* What the image passed to a backend looks like to it.
Feat(im) == im.px[<<0, 0>>][1] + im.px[<<im.w - 1, im.h - 1>>][1]

\* Python values a backend can return.  An ndarray keeps its shape and its
\* elements as nested sequences (data[i] is row i); a list or tuple keeps
\* its items.
Num(v) == [kind |-> "num", shape |-> <<>>, data |-> <<v>>, items |-> <<>>]
NdArray(shape, data) == [kind |-> "ndarray", shape |-> shape, data |-> data, items |-> <<>>]
PyList(items) == [kind |-> "list", shape |-> <<>>, data |-> <<>>, items |-> items]
PyTuple(items) == [kind |-> "tuple", shape |-> <<>>, data |-> <<>>, items |-> items]

\* What a backend call can do: raise, or return one of these containers.
LocalBehaviours == {"raise", "nd1xN", "nd1x0"}
ClipBehaviours == {"raise", "nd1xN", "ndN", "ndNx1", "nd2xN", "nd1x1xN",
                   "nd0", "nd1x0", "nd0xN",
                   "list_nd", "list_nums", "list_list", "list_empty", "list_nd0",
                   "list_list0", "tuple_nums"}

\* The EmbDim features a backend computes for an input it sees as f.
Vec(f) == [i \in 1 .. EmbDim |-> f + (i - 1)]

\* The container returned under behaviour beh for an input the backend
\* sees as f.
RawOf(beh, f) ==
    CASE beh = "nd1xN"      -> NdArray(<<1, EmbDim>>, <<Vec(f)>>)
      [] beh = "ndN"        -> NdArray(<<EmbDim>>, Vec(f))
      [] beh = "ndNx1"      -> NdArray(<<EmbDim, 1>>, [i \in 1 .. EmbDim |-> <<Vec(f)[i]>>])
      [] beh = "nd2xN"      -> NdArray(<<2, EmbDim>>, <<Vec(f), Vec(f + 100)>>)
      [] beh = "nd1x1xN"    -> NdArray(<<1, 1, EmbDim>>, << <<Vec(f)>> >>)
      [] beh = "nd0"        -> NdArray(<<0>>, <<>>)
      [] beh = "nd1x0"      -> NdArray(<<1, 0>>, << <<>> >>)
      [] beh = "nd0xN"      -> NdArray(<<0, EmbDim>>, <<>>)
      [] beh = "list_nd"    -> PyList(<<NdArray(<<EmbDim>>, Vec(f))>>)
      [] beh = "list_nums"  -> PyList([i \in 1 .. EmbDim |-> Num(Vec(f)[i])])
      [] beh = "list_list"  -> PyList(<<PyList([i \in 1 .. EmbDim |-> Num(Vec(f)[i])])>>)
      [] beh = "list_empty" -> PyList(<<>>)
      [] beh = "list_nd0"   -> PyList(<<NdArray(<<0>>, <<>>)>>)
      [] beh = "list_list0" -> PyList(<<PyList(<<>>)>>)
      [] beh = "tuple_nums" -> PyTuple([i \in 1 .. EmbDim |-> Num(Vec(f)[i])])

\* ndarray.flatten().tolist(): the elements of an array of the given rank
\* in row-major (C) order.
RECURSIVE Flatten(_, _)
Flatten(data, rank) ==
    IF rank <= 1 THEN data
    ELSE IF Len(data) = 0 THEN <<>>
    ELSE Flatten(Head(data), rank - 1) \o Flatten(Tail(data), rank)

\* np.array(obj).flatten().tolist() for a Python value obj.
RECURSIVE ArrayFlatten(_)
RECURSIVE FlattenItems(_)
FlattenItems(items) ==
    IF Len(items) = 0 THEN <<>>
    ELSE ArrayFlatten(Head(items)) \o FlattenItems(Tail(items))

ArrayFlatten(obj) ==
    IF obj.kind = "num" THEN obj.data
    ELSE IF obj.kind = "ndarray" THEN Flatten(obj.data, Len(obj.shape))
    ELSE FlattenItems(obj.items)

\* The extraction with the first test reduced to the rank, so that row 0
\* is taken from every rank-2 array.
ExtractEmbeddingRowZero(result) ==
    IF result.kind = "ndarray"
    THEN IF Len(result.shape) = 2
         THEN result.data[1]
         ELSE IF Len(result.shape) = 1
         THEN result.data
         ELSE Flatten(result.data, Len(result.shape))
    ELSE IF result.kind = "list" /\ Len(result.items) > 0
    THEN IF result.items[1].kind = "ndarray"
         THEN Flatten(result.items[1].data, Len(result.items[1].shape))
         ELSE ArrayFlatten(result.items[1])
    ELSE ArrayFlatten(result)

\* Lines 837-856 (918-932 and 1050-1069 are the same code): the embedding
\* list taken from the client's result.
ExtractEmbedding(result) ==
    IF result.kind = "ndarray"
    THEN IF Len(result.shape) = 2 /\ result.shape[1] = 1
         THEN result.data[1]                               \* result[0].tolist()
         ELSE IF Len(result.shape) = 1
         THEN result.data                                  \* result.tolist()
         ELSE Flatten(result.data, Len(result.shape))      \* result.flatten().tolist()
    ELSE IF result.kind = "list" /\ Len(result.items) > 0
    THEN IF result.items[1].kind = "ndarray"
         THEN Flatten(result.items[1].data, Len(result.items[1].shape))
         ELSE ArrayFlatten(result.items[1])                \* np.array(result[0]).flatten()
    ELSE ArrayFlatten(result)                              \* np.array(result).flatten()

\* An extraction that accepts an empty embedding.
ExtractionRaisesNever(embedding) == FALSE

\* Lines 858-859: an empty embedding raises.
ExtractionRaises(embedding) == Len(embedding) = 0

\* encode_with_dinov2, lines 643-660.
encode_with_dinov2(pil_image, beh) ==
    IF ~dinov2_model \/ ~dinov2_processor \/ beh = "raise"
    THEN [raised |-> TRUE, embedding |-> <<>>]
    ELSE LET features == RawOf(beh, Feat(pil_image))
         IN [raised |-> FALSE,
             embedding |-> Flatten(features.data, Len(features.shape))]

\* encode_with_vitl14, lines 662-676.
encode_with_vitl14(pil_image, beh) ==
    IF ~clip_vitl14_model \/ ~clip_vitl14_preprocess \/ beh = "raise"
    THEN [raised |-> TRUE, embedding |-> <<>>]
    ELSE LET features == RawOf(beh, Feat(pil_image))
         IN [raised |-> FALSE,
             embedding |-> Flatten(features.data, Len(features.shape))]

\* What the remote client is sent for pil_image: the 224 x 224 JPEG of
\* lines 819-824.
ClipFeat(pil_image) == Feat(pil_image) + 1000

\* Lines 826-861 (and 1046-1077): the client's result for an input it sees
\* as f, then the extraction of the embedding.
clip_client_encode(f, beh) ==
    IF beh = "raise"
    THEN [raised |-> TRUE, embedding |-> <<>>]
    ELSE LET embedding == ExtractEmbedding(RawOf(beh, f))
         IN IF ExtractionRaises(embedding)
            THEN [raised |-> TRUE, embedding |-> <<>>]
            ELSE [raised |-> FALSE, embedding |-> embedding]

\* Lines 817-861: resize to 224 x 224, encode through the remote client,
\* extract the embedding.
encode_with_clip_client(pil_image, beh) ==
    IF beh = "save_raise"
    THEN [raised |-> TRUE, embedding |-> <<>>]
    ELSE clip_client_encode(ClipFeat(pil_image), beh)

\* Lines 821-834 (and 904-915): temporary files left on disk by the client
\* path.  NamedTemporaryFile(delete=False) creates the file; when
\* pil_image.save raises inside the with block ("save_raise") the file is
\* only closed; otherwise the finally clause around the encode call
\* unlinks it.
TempFilesLeft(backend, beh) ==
    LET created == IF backend = "clip" THEN 1 ELSE 0
        unlinked == IF backend = "clip" /\ beh # "save_raise" THEN 1 ELSE 0
    IN created - unlinked

\* The backend calls a handler makes for the selected backend.
Invoked(backend, beh) ==
    IF backend = "none" \/ beh = "save_raise" THEN <<>> ELSE <<backend>>

\* The if/elif chain of the handlers (lines 807-817 and 893-900).
ActiveBackend ==
    IF dinov2_model THEN "dinov2"
    ELSE IF clip_vitl14_model THEN "vitl14"
    ELSE IF clip_client THEN "clip"
    ELSE "none"

BehavioursOf(backend) ==
    IF backend = "clip" THEN ClipBehaviours \cup {"save_raise"}
    ELSE IF backend = "none" THEN {"none"}
    ELSE LocalBehaviours

EncodeWith(backend, pil_image, beh) ==
    CASE backend = "dinov2" -> encode_with_dinov2(pil_image, beh)
      [] backend = "vitl14" -> encode_with_vitl14(pil_image, beh)
      [] backend = "clip"   -> encode_with_clip_client(pil_image, beh)

\* Status of the HTTPException raised at lines 864 / 939 as it leaves the
\* handler: it is raised inside the try block, and the handler's
\* "except Exception" re-raises it as a 500.
NoModelStatusInTry == 500

\* A handler that answers a raising backend with a vector of zeros.
EncodeResponseDefault(pil_image, beh) ==
    IF ActiveBackend = "none"
    THEN [status |-> NoModelStatusInTry, embedding |-> <<>>]
    ELSE LET r == EncodeWith(ActiveBackend, pil_image, beh)
         IN IF r.raised THEN [status |-> 200, embedding |-> <<0, 0>>]
            ELSE [status |-> 200, embedding |-> r.embedding]

\* Lines 806-870: the response of /encode for the RGB image pil_image.
EncodeResponse(pil_image, beh) ==
    IF ActiveBackend = "none"
    THEN [status |-> NoModelStatusInTry, embedding |-> <<>>]
    ELSE LET r == EncodeWith(ActiveBackend, pil_image, beh)
         IN IF r.raised THEN [status |-> 500, embedding |-> <<>>]
            ELSE [status |-> 200, embedding |-> r.embedding]

\* Lines 800-804: open the upload, convert to RGB if needed.
RawDecode(upload) == IF upload.mode # "RGB" THEN ConvertRGB(upload) ELSE upload

\* A fallback that re-opens the upload without converting it.
InpaintedDecodeNoConvert(upload, inpaint_result) ==
    IF inpaint_result # None THEN inpaint_result[1] ELSE upload

\* Line 890: inpaint(...) or Image.open(...).convert("RGB")
InpaintedDecode(upload, inpaint_result) ==
    IF inpaint_result # None THEN inpaint_result[1] ELSE ConvertRGB(upload)

\* Lines 892-944: the response of /encode/inpainted for pil_image.
EncodeInpaintedResponse(pil_image, beh) ==
    IF ActiveBackend = "none"
    THEN [status |-> NoModelStatusInTry, embedding |-> <<>>]
    ELSE LET r == EncodeWith(ActiveBackend, pil_image, beh)
         IN IF r.raised THEN [status |-> 500, embedding |-> <<>>]
            ELSE [status |-> 200, embedding |-> r.embedding]

\* The texts of the /encode/text requests and what the text tower sees of
\* them.
Texts == {"door", "stairs"}
TextFeat(text) == IF text = "door" THEN 5 ELSE 6

\* Lines 1042-1043: the rejection of /encode/text.
ClientMissingResponse ==
    [status |-> 503, detail |-> "CLIP server not connected", embedding |-> <<>>]

\* Lines 1037-1084: the response of /encode/text.  Only clip_client is
\* consulted; encode_text_with_vitl14 (lines 678-692) has no caller.
EncodeTextResponse(text, beh) ==
    IF ~clip_client
    THEN ClientMissingResponse
    ELSE LET r == clip_client_encode(TextFeat(text), beh)
         IN IF r.raised
            THEN [status |-> 500, detail |-> "Failed to encode text", embedding |-> <<>>]
            ELSE [status |-> 200, detail |-> "", embedding |-> r.embedding]

\* What the detector can answer to the second call of detect_people (line
\* 982) after answering det to the first: the same again, an exception, or
\* a result without instances.
SecondAnswers(det) ==
    {det,
     [raises |-> TRUE, has_masks |-> FALSE, insts |-> <<>>],
     [raises |-> FALSE, has_masks |-> FALSE, insts |-> <<>>]}

\* Lines 976-994: the confidences appended by the second pass; only
\* box.cls and box.conf are read, and an exception of the call leaves the
\* list empty (line 993).
RECURSIVE CollectScores(_)
CollectScores(insts) ==
    IF insts = <<>> THEN <<>>
    ELSE IF Accepted(Head(insts))
         THEN <<Head(insts).conf>> \o CollectScores(Tail(insts))
         ELSE CollectScores(Tail(insts))

\* Lines 965-999: the body of the response of /detect/people when the
\* detector answers det1 to _get_yolo_person_masks and det2 to the second
\* call.
DetectPeopleResponse(img, det1, det2) ==
    LET all_masks == get_yolo_person_masks(img, det1).masks
    IN [people_detected |-> Len(all_masks) > 0,
        people_count |-> Len(all_masks),
        confidence_scores |-> IF ~yolo_model \/ det2.raises THEN <<>>
                              ELSE CollectScores(det2.insts)]

\* PIL's JPEG encoder as the preview uses it (line 1023): size kept, the
\* channel values only approximately.
Jpeg(im) ==
    [mode |-> "JPEG", w |-> im.w, h |-> im.h,
     px |-> [p \in PixelsOf(im.w, im.h) |->
               [c \in 1 .. Len(im.px[p]) |-> (im.px[p][c] \div 2) * 2]]]

\* What can happen to the temporary file of the preview: nothing, save
\* raises inside the with block (line 1023), reading it back raises (line
\* 1027).
FileBehaviours == {"ok", "save_raise", "read_raise"}

\* A preview that always reports fallback = False.
PreviewResponseNoFlag(inpaint_result, pil_image, file_beh) ==
    IF file_beh # "ok"
    THEN [status |-> 500, preview |-> None,
          tmp_left |-> IF file_beh = "save_raise" THEN 1 ELSE 0]
    ELSE [status |-> 200,
          preview |-> Some([processed_image |-> Jpeg(pil_image), fallback |-> FALSE]),
          tmp_left |-> 0]

\* Lines 1016-1034: the response of /inpaint/preview.  inpaint_result is
\* what inpaint_people_from_image_bytes returned, pil_image the image
\* chosen at lines 1017-1020; the temporary file is unlinked by the
\* finally clause of lines 1028-1032 unless save raised before the try.
PreviewResponse(inpaint_result, pil_image, file_beh) ==
    IF file_beh # "ok"
    THEN [status |-> 500, preview |-> None,
          tmp_left |-> IF file_beh = "save_raise" THEN 1 ELSE 0]
    ELSE [status |-> 200,
          preview |-> Some([processed_image |-> Jpeg(pil_image),
                            fallback |-> inpaint_result = None]),
          tmp_left |-> 0]

(***************************************************************************)
(* Request handling.                                                       *)
(***************************************************************************)
NoInpaint == [result |-> None, raised |-> FALSE, sd_called |-> FALSE, roi |-> None,
              img_after |-> None]

IdleReq ==
    [pc |-> "idle",            \* idle | detect | inpaint | encode | done
     endpoint |-> "none",      \* none | encode | encode_inpainted | encode_text |
                               \* detect_people | inpaint_preview
     text |-> None,            \* the text of an /encode/text request
     detail |-> "",            \* detail of the HTTPException of /encode/text
     upload |-> None,          \* the uploaded file
     img |-> None,             \* the array decoded at line 468
     det_called |-> FALSE,     \* the detector was invoked
     det_raises |-> FALSE,     \* the detector call or the instance loop raised
     det_accepted |-> 0,       \* instances passing the class and confidence filter
     detect_raised |-> FALSE,  \* an exception left _get_yolo_person_masks
     detected |-> FALSE,       \* _get_yolo_person_masks has returned
     masks |-> <<>>,           \* candidate_masks
     ndet |-> 0,               \* len(candidate_masks)
     union_mask |-> None,      \* the composite mask of line 479
     inpaint_done |-> FALSE,   \* inpaint_people_from_image_bytes has returned
     inpaint_fail |-> "none",  \* where the inner try block was made to raise
     inpaint_failed |-> FALSE, \* a step of the inner try block raised
     inpaint |-> NoInpaint,    \* outcome of inpaint_people_from_image_bytes
     enc_input |-> None,       \* the image handed to the embedding backend
     backend |-> "none",       \* the backend the handler invoked
     beh |-> "none",           \* what that backend call did
     decodes |-> 0,            \* times the uploaded bytes were opened and made RGB
     people |-> None,          \* body of the /detect/people response
     second |-> "none",        \* what the second detector call of /detect/people did
     preview |-> None,         \* body of the /inpaint/preview response
     tmp_left |-> 0,           \* temporary files of the request still on disk
     status |-> 0,             \* HTTP status of the response, 0 = none yet
     embedding |-> <<>>,       \* embedding of the response
     trace |-> <<>>]           \* external services invoked, in order

\* The event loop takes up a request once the previous response is out.
CanStart == lifespan_pc = "serving" /\ req.pc = "idle"

\* A handler that drops the provider object whose call failed.
encode_image_resetting ==
    /\ CanStart
    /\ \E upload \in Uploads, beh \in BehavioursOf(ActiveBackend) :
         LET pil_image == RawDecode(upload)
             resp == EncodeResponse(pil_image, beh)
         IN /\ req' = [IdleReq EXCEPT
                         !.pc = "done",
                         !.endpoint = "encode",
                         !.upload = Some(upload),
                         !.enc_input = IF ActiveBackend = "none" THEN None ELSE Some(pil_image),
                         !.backend = ActiveBackend,
                         !.beh = beh,
                         !.decodes = 1,
                         !.tmp_left = TempFilesLeft(ActiveBackend, beh),
                         !.status = resp.status,
                         !.embedding = resp.embedding,
                         !.trace = Invoked(ActiveBackend, beh)]
            /\ clip_client' = IF ActiveBackend = "clip" /\ resp.status = 500
                              THEN FALSE ELSE clip_client
    /\ UNCHANGED <<startup, dinov2_model, dinov2_processor, clip_vitl14_model,
                   clip_vitl14_preprocess, clip_vitl14_tokenizer, yolo_model,
                   sd_inpaint_pipeline, dilate_call, detect_call>>

\* POST /encode, lines 792-870 (the handler has no await after the read).
encode_image ==
    /\ CanStart
    /\ \E upload \in Uploads, beh \in BehavioursOf(ActiveBackend) :
         LET pil_image == RawDecode(upload)
             resp == EncodeResponse(pil_image, beh)
         IN req' = [IdleReq EXCEPT
                      !.pc = "done",
                      !.endpoint = "encode",
                      !.upload = Some(upload),
                      !.enc_input = IF ActiveBackend = "none" THEN None ELSE Some(pil_image),
                      !.backend = ActiveBackend,
                      !.beh = beh,
                      !.decodes = 1,
                      !.tmp_left = TempFilesLeft(ActiveBackend, beh),
                      !.status = resp.status,
                      !.embedding = resp.embedding,
                      !.trace = Invoked(ActiveBackend, beh)]
    /\ UNCHANGED <<startup, provider, dilate_call, detect_call>>

\* Status raised at line 883, before the try block.
NoModelStatus == 503

\* POST /encode/inpainted, lines 879-890 and 468: the availability check,
\* the read, and the decode at the top of inpaint_people_from_image_bytes.
encode_image_inpainted_start ==
    /\ CanStart
    /\ \E upload \in Uploads :
         req' = IF ~dinov2_model /\ ~clip_vitl14_model /\ ~clip_client
                THEN [IdleReq EXCEPT !.pc = "done", !.endpoint = "encode_inpainted",
                                     !.upload = Some(upload), !.status = NoModelStatus]
                ELSE [IdleReq EXCEPT !.pc = "detect", !.endpoint = "encode_inpainted",
                                     !.upload = Some(upload),
                                     !.img = Some(np_image_from_bytes(upload)),
                                     !.decodes = 1]
    /\ UNCHANGED <<startup, provider, dilate_call, detect_call>>

\* Line 471: candidate_masks = _get_yolo_person_masks(img)
detect_step ==
    /\ req.pc = "detect"
    /\ LET img == req.img[1]
       IN \E det \in IF yolo_model THEN DetectorAnswers(img.w, img.h)
                     ELSE {[raises |-> FALSE, has_masks |-> FALSE, insts |-> <<>>]} :
            LET r == get_yolo_person_masks(img, det)
            IN req' = [req EXCEPT
                         !.pc = "inpaint",
                         !.det_called = yolo_model,
                         !.det_raises = yolo_model /\ DetectRaises(det),
                         !.det_accepted = IF yolo_model THEN AcceptedCount(det) ELSE 0,
                         !.detect_raised = r.raised,
                         !.detected = TRUE,
                         !.masks = r.masks,
                         !.ndet = Len(r.masks),
                         !.trace = IF yolo_model THEN Append(@, "detector") ELSE @]
    /\ UNCHANGED <<startup, provider, dilate_call, detect_call>>

\* Lines 472-564 and 890 (1017-1020 in the preview): the rest of
\* inpaint_people_from_image_bytes, then the choice between its result and
\* the re-opened original.  An exception
\* leaving the function would reach the handler's except clause (line 940).
inpaint_step ==
    /\ req.pc = "inpaint"
    /\ \E cv2_ok \in BOOLEAN :
         LET img == req.img[1]
         IN \E union_mask \in {ComposeMask(img, req.masks, cv2_ok)},
               fail_at \in IF req.masks # <<>> /\ sd_inpaint_pipeline
                           THEN FailPoints ELSE {"none"},
               out_colour \in SdColours, feather \in FeatherLevels :
              LET r == IF req.detect_raised
                       THEN [NoInpaint EXCEPT !.img_after = Some(img)]   \* line 562
                       ELSE InpaintFromMasks(img, req.masks, union_mask,
                                             fail_at, out_colour, feather)
              IN req' = [req EXCEPT
                           !.pc = IF r.raised THEN "done" ELSE "encode",
                           !.status = IF r.raised THEN 500 ELSE 0,
                           !.union_mask = IF req.masks = <<>> \/ req.detect_raised
                                          THEN None ELSE Some(union_mask),
                           !.inpaint_done = TRUE,
                           !.inpaint_fail = IF r.roi = None THEN "none" ELSE fail_at,
                           !.inpaint = r,
                           !.inpaint_failed = r.roi # None /\ r.result = None,
                           !.enc_input = IF r.raised THEN None
                                         ELSE Some(InpaintedDecode(req.upload[1], r.result)),
                           !.decodes = IF r.raised \/ r.result # None THEN @ ELSE @ + 1,
                           !.trace = IF r.sd_called THEN Append(@, "sd_inpaint") ELSE @]
    /\ UNCHANGED <<startup, provider, dilate_call, detect_call>>

\* A handler that calls the backend a second time when the call failed.
encode_image_inpainted_finish_retry ==
    /\ req.pc = "encode"
    /\ req.endpoint = "encode_inpainted"
    /\ \E beh \in BehavioursOf(ActiveBackend) :
         LET resp == EncodeInpaintedResponse(req.enc_input[1], beh)
         IN req' = [req EXCEPT
                      !.pc = "done",
                      !.masks = <<>>,
                      !.backend = ActiveBackend,
                      !.beh = beh,
                      !.tmp_left = TempFilesLeft(ActiveBackend, beh),
                      !.status = resp.status,
                      !.embedding = resp.embedding,
                      !.trace = IF resp.status = 500
                                THEN @ \o Invoked(ActiveBackend, beh) \o Invoked(ActiveBackend, beh)
                                ELSE @ \o Invoked(ActiveBackend, beh)]
    /\ UNCHANGED <<startup, provider, dilate_call, detect_call>>

\* Lines 892-944: encode the conditioned image with the best backend.
encode_image_inpainted_finish ==
    /\ req.pc = "encode"
    /\ req.endpoint = "encode_inpainted"
    /\ \E beh \in BehavioursOf(ActiveBackend) :
         LET resp == EncodeInpaintedResponse(req.enc_input[1], beh)
         IN req' = [req EXCEPT
                      !.pc = "done",
                      !.masks = <<>>,
                      !.backend = ActiveBackend,
                      !.beh = beh,
                      !.tmp_left = TempFilesLeft(ActiveBackend, beh),
                      !.status = resp.status,
                      !.embedding = resp.embedding,
                      !.trace = @ \o Invoked(ActiveBackend, beh)]
    /\ UNCHANGED <<startup, provider, dilate_call, detect_call>>

\* POST /encode/text, lines 1037-1084.
encode_text ==
    /\ CanStart
    /\ \E text \in Texts, beh \in IF clip_client THEN ClipBehaviours ELSE {"none"} :
         LET resp == EncodeTextResponse(text, beh)
         IN req' = [IdleReq EXCEPT
                      !.pc = "done",
                      !.endpoint = "encode_text",
                      !.text = Some(text),
                      !.backend = IF clip_client THEN "clip" ELSE "none",
                      !.beh = beh,
                      !.status = resp.status,
                      !.detail = resp.detail,
                      !.embedding = resp.embedding,
                      !.trace = IF clip_client THEN <<"clip">> ELSE <<>>]
    /\ UNCHANGED <<startup, provider, dilate_call, detect_call>>

\* POST /detect/people, lines 959-1004 (no await after the read).
detect_people ==
    /\ CanStart
    /\ \E upload \in Uploads :
         LET img == np_image_from_bytes(upload)
             NoAnswer == [raises |-> FALSE, has_masks |-> FALSE, insts |-> <<>>]
         IN \E det1 \in IF yolo_model THEN DetectorAnswers(img.w, img.h) ELSE {NoAnswer} :
              \E det2 \in IF yolo_model THEN SecondAnswers(det1) ELSE {NoAnswer} :
                 req' = [IdleReq EXCEPT
                           !.pc = "done",
                           !.endpoint = "detect_people",
                           !.upload = Some(upload),
                           !.img = Some(img),
                           !.decodes = 1,
                           !.det_called = yolo_model,
                           !.det_raises = yolo_model /\ DetectRaises(det1),
                           !.det_accepted = IF yolo_model THEN AcceptedCount(det1) ELSE 0,
                           !.detected = TRUE,
                           !.people = Some(DetectPeopleResponse(img, det1, det2)),
                           !.second = IF ~yolo_model THEN "none"
                                      ELSE IF det2.raises THEN "raise"
                                      ELSE IF det2 = det1 THEN "same" ELSE "other",
                           !.status = 200,
                           !.trace = IF yolo_model THEN <<"detector", "detector">> ELSE <<>>]
    /\ UNCHANGED <<startup, provider, dilate_call, detect_call>>

\* POST /inpaint/preview, lines 1014-1015 and 468: decode the base64 body
\* and the image at the top of inpaint_people_from_image_bytes.
inpaint_preview_start ==
    /\ CanStart
    /\ \E upload \in Uploads :
         req' = [IdleReq EXCEPT !.pc = "detect", !.endpoint = "inpaint_preview",
                                !.upload = Some(upload),
                                !.img = Some(np_image_from_bytes(upload)),
                                !.decodes = 1]
    /\ UNCHANGED <<startup, provider, dilate_call, detect_call>>

\* Lines 1022-1035: write the chosen image to a temporary JPEG, read it
\* back, answer.
inpaint_preview_finish ==
    /\ req.pc = "encode"
    /\ req.endpoint = "inpaint_preview"
    /\ \E file_beh \in FileBehaviours :
         LET resp == PreviewResponse(req.inpaint.result, req.enc_input[1], file_beh)
         IN req' = [req EXCEPT
                      !.pc = "done",
                      !.masks = <<>>,
                      !.beh = file_beh,
                      !.tmp_left = resp.tmp_left,
                      !.status = resp.status,
                      !.preview = resp.preview]
    /\ UNCHANGED <<startup, provider, dilate_call, detect_call>>

\* The response (EmbeddingResponse or HTTPException) leaves the handler.
respond ==
    /\ req.pc = "done"
    /\ req' = IdleReq
    /\ UNCHANGED <<startup, provider, dilate_call, detect_call>>

(***************************************************************************)
(* The specification.                                                      *)
(***************************************************************************)
Init ==
    /\ lifespan_pc = "dinov2"
    /\ attempted = <<>>
    /\ dinov2_success = "unset"
    /\ vitl14_success = "unset"
    /\ clip_success = "unset"
    /\ dinov2_model = FALSE
    /\ dinov2_processor = FALSE
    /\ clip_vitl14_model = FALSE
    /\ clip_vitl14_preprocess = FALSE
    /\ clip_vitl14_tokenizer = FALSE
    /\ clip_client = FALSE
    /\ yolo_model = FALSE
    /\ sd_inpaint_pipeline = FALSE
    /\ req = IdleReq
    /\ dilate_call = NoCall
    /\ detect_call = NoDetectCall

Next ==
    \/ LifespanDinov2
    \/ LifespanVitl14
    \/ LifespanClip
    \/ LifespanInpaint
    \/ encode_image
    \/ encode_image_inpainted_start
    \/ detect_step
    \/ inpaint_step
    \/ encode_image_inpainted_finish
    \/ encode_text
    \/ detect_people
    \/ respond

Spec == Init /\ [][Next]_vars

(***************************************************************************)
(* _dilate_mask_binary on its own: every mask of up to MaskW x MaskH       *)
(* pixels, every kernel size up to MaxKernel, both paths, applied once and *)
(* then again to its own result.                                           *)
(***************************************************************************)
DilateInit ==
    /\ lifespan_pc = "dinov2"
    /\ attempted = <<>>
    /\ dinov2_success = "unset"
    /\ vitl14_success = "unset"
    /\ clip_success = "unset"
    /\ dinov2_model = FALSE
    /\ dinov2_processor = FALSE
    /\ clip_vitl14_model = FALSE
    /\ clip_vitl14_preprocess = FALSE
    /\ clip_vitl14_tokenizer = FALSE
    /\ clip_client = FALSE
    /\ yolo_model = FALSE
    /\ sd_inpaint_pipeline = FALSE
    /\ req = IdleReq
    /\ detect_call = NoDetectCall
    /\ \E mask \in DilateMasks, kernel_size \in 1 .. MaxKernel, cv2_ok \in BOOLEAN :
         dilate_call = [NoCall EXCEPT !.pc = "args", !.mask = Some(mask),
                                      !.kernel_size = kernel_size, !.cv2_ok = cv2_ok]

\* out = _dilate_mask_binary(mask, kernel_size)
dilate_once ==
    /\ dilate_call.pc = "args"
    /\ dilate_call' = [dilate_call EXCEPT
                         !.pc = "once",
                         !.out = Some(dilate_mask_binary(dilate_call.mask[1],
                                                         dilate_call.kernel_size,
                                                         dilate_call.cv2_ok))]
    /\ UNCHANGED <<startup, provider, req, detect_call>>

\* again = _dilate_mask_binary(out, kernel_size)
dilate_twice ==
    /\ dilate_call.pc = "once"
    /\ dilate_call' = [dilate_call EXCEPT
                         !.pc = "twice",
                         !.again = Some(dilate_mask_binary(dilate_call.out[1],
                                                           dilate_call.kernel_size,
                                                           dilate_call.cv2_ok))]
    /\ UNCHANGED <<startup, provider, req, detect_call>>

DilateNext ==
    \/ dilate_once
    \/ dilate_twice

DilateSpec == DilateInit /\ [][DilateNext]_vars

(***************************************************************************)
(* _get_yolo_person_masks on its own, with a detector loaded.              *)
(***************************************************************************)
DetectInit ==
    /\ lifespan_pc = "serving"
    /\ attempted = <<"dinov2", "vitl14", "clip">>
    /\ dinov2_success = "false"
    /\ vitl14_success = "false"
    /\ clip_success = "false"
    /\ dinov2_model = FALSE
    /\ dinov2_processor = FALSE
    /\ clip_vitl14_model = FALSE
    /\ clip_vitl14_preprocess = FALSE
    /\ clip_vitl14_tokenizer = FALSE
    /\ clip_client = FALSE
    /\ yolo_model = TRUE
    /\ sd_inpaint_pipeline = FALSE
    /\ req = IdleReq
    /\ dilate_call = NoCall
    /\ \E det \in DetectCallAnswers(MaskW, MaskH) :
         detect_call = [NoDetectCall EXCEPT
                          !.pc = "args",
                          !.img = Some(NewImage("RGB", MaskW, MaskH, <<10, 20, 30>>)),
                          !.det = Some(det)]

\* all_masks = _get_yolo_person_masks(img)
detect_apply ==
    /\ detect_call.pc = "args"
    /\ detect_call' = [detect_call EXCEPT
                         !.pc = "returned",
                         !.out = Some(get_yolo_person_masks(detect_call.img[1],
                                                            detect_call.det[1]))]
    /\ UNCHANGED <<startup, provider, req, dilate_call>>

DetectNext == detect_apply

DetectSpec == DetectInit /\ [][DetectNext]_vars

(***************************************************************************)
(* /inpaint/preview on its own, in the serving states that differ in what  *)
(* the handler reads: the detector and the inpainting pipeline, each       *)
(* loaded or not.  The embedding globals are never read by the preview;    *)
(* they are as the lifespan leaves them when all three initializers fail.  *)
(***************************************************************************)
PreviewInit ==
    /\ lifespan_pc = "serving"
    /\ attempted = <<"dinov2", "vitl14", "clip">>
    /\ dinov2_success = "false"
    /\ vitl14_success = "false"
    /\ clip_success = "false"
    /\ dinov2_model = FALSE
    /\ dinov2_processor = FALSE
    /\ clip_vitl14_model = FALSE
    /\ clip_vitl14_preprocess = FALSE
    /\ clip_vitl14_tokenizer = FALSE
    /\ clip_client = FALSE
    /\ yolo_model \in BOOLEAN
    /\ sd_inpaint_pipeline \in BOOLEAN
    /\ req = IdleReq
    /\ dilate_call = NoCall
    /\ detect_call = NoDetectCall

PreviewNext ==
    \/ inpaint_preview_start
    \/ detect_step
    \/ inpaint_step
    \/ inpaint_preview_finish
    \/ respond

PreviewSpec == PreviewInit /\ [][PreviewNext]_vars

(***************************************************************************)
(* Properties.                                                             *)
(***************************************************************************)
Range(seq) == {seq[i] : i \in 1 .. Len(seq)}
Done == req.pc = "done"
Backends == {"dinov2", "vitl14", "clip"}
BackendCalls == Cardinality({i \in 1 .. Len(req.trace) : req.trace[i] \in Backends})
NoModelLoaded == ~dinov2_model /\ ~clip_vitl14_model /\ ~clip_client
ImageRequest == req.endpoint \in {"encode", "encode_inpainted"}
EmbeddingRequest == ImageRequest \/ req.endpoint = "encode_text"

\* C1: the initializers are attempted in the order DINOv2, ViT-L/14, remote
\* client; once one has returned success no further initializer is
\* attempted, and the chain only stops early on a success.
C1_PriorityOrder ==
    /\ Len(attempted) <= 3
    /\ attempted = SubSeq(<<"dinov2", "vitl14", "clip">>, 1, Len(attempted))
    /\ dinov2_success = "true" => attempted = <<"dinov2">>
    /\ vitl14_success = "true" => attempted = <<"dinov2", "vitl14">>
    /\ lifespan_pc \in {"inpaint", "serving"} =>
          \/ dinov2_success = "true"
          \/ vitl14_success = "true"
          \/ Len(attempted) = 3

C1_Witness ==
    /\ lifespan_pc = "serving"
    /\ vitl14_success = "true"
    /\ attempted = <<"dinov2", "vitl14">>

\* C2: the backend a request invokes is one whose initializer returned
\* success.
C2_OnlySuccessfulBackendInvoked ==
    /\ req.backend = "dinov2" => dinov2_success = "true"
    /\ req.backend = "vitl14" => vitl14_success = "true"
    /\ req.backend = "clip" => clip_success = "true"

\* C3: a successful response never carries a zero-length embedding,
\* whichever backend produced it.
C3_SuccessNeverEmpty ==
    (Done /\ EmbeddingRequest /\ req.status = 200) => Len(req.embedding) > 0

\* C4: with no embedding model loaded, both /encode and /encode/inpainted
\* answer 503, never 500.
C4_NoBackendIs503 ==
    (Done /\ ImageRequest /\ NoModelLoaded) => req.status = 503

\* The backend call of the finished request raised: the backend itself, or
\* the missing DINOv2 processor.
BackendCallRaised ==
    \/ req.beh = "raise"
    \/ req.backend = "dinov2" /\ ~dinov2_processor

\* C5: when the active backend's encode call raises while an image is
\* embedded, the response is a failure without any vector, and exactly one
\* backend (the active one) was invoked.
C5_RaiseSurfaces ==
    (Done /\ ImageRequest /\ req.backend # "none" /\ BackendCallRaised) =>
        /\ req.status = 500
        /\ req.embedding = <<>>
        /\ BackendCalls = 1
        /\ req.backend = ActiveBackend

C5_Witness ==
    /\ Done
    /\ req.backend = "dinov2"
    /\ req.beh = "raise"
    /\ clip_vitl14_model
    /\ req.status = 500

\* The backend answers with a container that holds an embedding.
UsableAnswer(backend, beh) ==
    /\ beh \in {"nd1xN", "ndN", "ndNx1", "nd2xN", "nd1x1xN",
               "list_nd", "list_nums", "list_list", "tuple_nums"}
    /\ backend = "dinov2" => dinov2_processor

\* What the backend sees of the original upload.
OriginalFeat(upload, backend) ==
    Feat(ConvertRGB(upload)) + (IF backend = "clip" THEN 1000 ELSE 0)

\* C6: with an embedding model loaded, /encode/inpainted always reaches the
\* backend, whatever the detector and the inpainting stage did; it succeeds
\* whenever the backend answers, and when inpainting gave no image the
\* embedding is that of the original image.
C6_InpaintNeverBlocks ==
    (Done /\ req.endpoint = "encode_inpainted" /\ ActiveBackend # "none") =>
        /\ req.backend = ActiveBackend
        /\ UsableAnswer(req.backend, req.beh) =>
              /\ req.status = 200
              /\ req.inpaint.result = None =>
                    /\ req.enc_input = Some(ConvertRGB(req.upload[1]))
                    /\ Head(req.embedding) = OriginalFeat(req.upload[1], req.backend)

C6_Witness ==
    /\ Done
    /\ req.endpoint = "encode_inpainted"
    /\ req.inpaint.roi # None
    /\ req.inpaint_fail = "call"
    /\ req.inpaint.result = None
    /\ req.status = 200

\* C7: with zero detections /encode/inpainted invokes the same backend on
\* the same decoded image as /encode and returns the same response.
C7_ZeroDetectionsSameAsRaw ==
    (Done /\ req.endpoint = "encode_inpainted" /\ ActiveBackend # "none" /\ req.ndet = 0) =>
        /\ req.backend = ActiveBackend
        /\ req.enc_input = Some(RawDecode(req.upload[1]))
        /\ [status |-> req.status, embedding |-> req.embedding]
              = EncodeResponse(RawDecode(req.upload[1]), req.beh)

C7_Witness ==
    /\ Done
    /\ req.endpoint = "encode_inpainted"
    /\ req.det_called
    /\ req.ndet = 0
    /\ req.upload[1].mode = "L"
    /\ req.status = 200

\* C8: with no detection, or with a composite mask without foreground, the
\* inpainting stage returns None and the inpainting pipeline is not invoked.
C8_EmptyMaskNoInpaint ==
    ( /\ req.inpaint_done
      /\ \/ req.ndet = 0
         \/ req.union_mask # None /\ Foreground(req.union_mask[1]) = {} ) =>
        /\ req.inpaint.result = None
        /\ ~req.inpaint.sd_called
        /\ "sd_inpaint" \notin Range(req.trace)

C8_Witness ==
    /\ req.inpaint_done
    /\ sd_inpaint_pipeline
    /\ req.ndet > 0
    /\ req.union_mask # None
    /\ Foreground(req.union_mask[1]) = {}

\* C9: an image returned by the inpainting stage has the size of the
\* decoded input and equals it at every pixel outside the ROI rectangle
\* [x1, x2) x [y1, y2); the decoded input array is unchanged.
C9_OutsideRoiUntouched ==
    req.inpaint.result # None =>
        LET out == req.inpaint.result[1]
            img == np_image_from_bytes(req.upload[1])
            roi == req.inpaint.roi[1]
        IN /\ out.w = img.w
           /\ out.h = img.h
           /\ DOMAIN out.px = PixelsOf(img.w, img.h)
           /\ \A p \in PixelsOf(img.w, img.h) :
                 (p[1] < roi[1] \/ p[1] >= roi[3] \/ p[2] < roi[2] \/ p[2] >= roi[4])
                     => out.px[p] = img.px[p]
           /\ req.inpaint.img_after = Some(img)
           /\ req.img = Some(img)

C9_Witness ==
    /\ req.inpaint.result # None
    /\ LET out == req.inpaint.result[1]
           img == np_image_from_bytes(req.upload[1])
           roi == req.inpaint.roi[1]
       IN /\ \E p \in PixelsOf(img.w, img.h) : p[1] >= roi[3] /\ out.px[p] = img.px[p]
          /\ \E p \in PixelsOf(img.w, img.h) : out.px[p] # img.px[p]

\* C10: _get_yolo_person_masks never raises, and returns the empty list
\* when no detector is loaded, when the detector call or the processing of
\* an instance raises, and when no instance is accepted.
C10_DetectNeverRaises ==
    req.detected =>
        /\ ~req.detect_raised
        /\ (~req.det_called \/ req.det_raises \/ req.det_accepted = 0) => req.ndet = 0

C10_Witness ==
    /\ req.detected
    /\ req.det_called
    /\ req.det_raises
    /\ req.det_accepted >= 2
    /\ req.ndet = 0

SelectedAtStartup ==
    IF dinov2_success = "true" THEN "dinov2"
    ELSE IF vitl14_success = "true" THEN "vitl14"
    ELSE IF clip_success = "true" THEN "clip"
    ELSE "none"

TextDone == Done /\ req.endpoint = "encode_text"
TextOutcome == [status |-> req.status, detail |-> req.detail, embedding |-> req.embedding]

\* C12: when DINOv2 (image-only) is the backend selected at startup,
\* /encode/text fails with an outcome different from the one it returns
\* when no embedding backend is available.
C12_ImageOnlyRejectedDistinctly ==
    (TextDone /\ SelectedAtStartup = "dinov2") => TextOutcome # ClientMissingResponse

\* C13: when the backend selected at startup has a text tower (ViT-L/14 or
\* the remote client) and its call answers with an embedding, /encode/text
\* returns a non-empty embedding produced by that backend; /encode/text is
\* rejected as unavailable only when the selected backend is DINOv2 or
\* there is none.
C13_TextServedByActiveBackend ==
    /\ (TextDone /\ SelectedAtStartup \in {"vitl14", "clip"}
               /\ (req.backend = "clip" => UsableAnswer("clip", req.beh))) =>
          /\ req.status = 200
          /\ Len(req.embedding) > 0
          /\ req.backend = SelectedAtStartup
    /\ (TextDone /\ req.status = 503) => SelectedAtStartup \in {"dinov2", "none"}

\* What the remote client was sent by the finished request.
ClientSaw ==
    IF req.endpoint = "encode_text" THEN TextFeat(req.text[1])
    ELSE ClipFeat(req.enc_input[1])

\* The remote client returned a value to the finished request.
ClientAnswered == Done /\ req.backend = "clip" /\ req.beh \notin {"raise", "save_raise"}

NumElements(shape) ==
    IF Len(shape) = 1 THEN shape[1]
    ELSE IF Len(shape) = 2 THEN shape[1] * shape[2]
    ELSE shape[1] * shape[2] * shape[3]

\* C14: for a non-empty array returned by the client the response carries
\* the array's elements in row-major order: a rank-1 array gives its
\* values, a [1,N] array gives row 0, any other array of rank 2 or 3 gives
\* element (i,j) at position (i-1)*cols + j (and (i,j,k) likewise).
C14_ArrayRowMajor ==
    ClientAnswered =>
        LET raw == RawOf(req.beh, ClientSaw)
            shape == raw.shape
            out == req.embedding
        IN (raw.kind = "ndarray" /\ NumElements(shape) > 0) =>
             /\ req.status = 200
             /\ Len(out) = NumElements(shape)
             /\ Len(shape) = 1 => out = raw.data
             /\ (Len(shape) = 2 /\ shape[1] = 1) => out = raw.data[1]
             /\ Len(shape) = 2 =>
                   \A i \in 1 .. shape[1], j \in 1 .. shape[2] :
                       out[(i - 1) * shape[2] + j] = raw.data[i][j]
             /\ Len(shape) = 3 =>
                   \A i \in 1 .. shape[1], j \in 1 .. shape[2], k \in 1 .. shape[3] :
                       out[((i - 1) * shape[2] + (j - 1)) * shape[3] + k] = raw.data[i][j][k]

C14_Witness ==
    /\ ClientAnswered
    /\ req.endpoint = "encode_text"
    /\ req.beh = "nd2xN"
    /\ req.status = 200
    /\ Len(req.embedding) = 2 * EmbDim
    /\ req.embedding[EmbDim + 1] = TextFeat(req.text[1]) + 100

\* C15: for a list of N plain numbers returned by the client the response
\* carries all N numbers in order; for a list whose element 0 is an array
\* or a list it carries the flattening of element 0.
C15_ListOfNumbersWhole ==
    ClientAnswered =>
        LET raw == RawOf(req.beh, ClientSaw)
        IN (raw.kind = "list" /\ Len(raw.items) > 0) =>
             /\ (\A i \in 1 .. Len(raw.items) : raw.items[i].kind = "num") =>
                   /\ req.status = 200
                   /\ req.embedding = [i \in 1 .. Len(raw.items) |-> raw.items[i].data[1]]
             /\ (raw.items[1].kind = "ndarray" /\ NumElements(raw.items[1].shape) > 0) =>
                       /\ req.status = 200
                       /\ req.embedding = raw.items[1].data
             /\ (raw.items[1].kind = "list" /\ Len(raw.items[1].items) > 0) =>
                       /\ req.status = 200
                       /\ req.embedding = [i \in 1 .. Len(raw.items[1].items) |->
                                              raw.items[1].items[i].data[1]]

\* The value has no element to extract: an empty array of any rank, an
\* empty list or tuple, a list whose element 0 is an empty array or list.
EmptyRaw(raw) ==
    \/ raw.kind = "ndarray" /\ NumElements(raw.shape) = 0
    \/ raw.kind \in {"list", "tuple"} /\ Len(raw.items) = 0
    \/ /\ raw.kind = "list"
       /\ Len(raw.items) > 0
       /\ \/ raw.items[1].kind = "ndarray" /\ NumElements(raw.items[1].shape) = 0
          \/ raw.items[1].kind = "list" /\ Len(raw.items[1].items) = 0

\* C16: when the client's result has no element to extract the handler
\* answers 500 without a vector, and no successful response of a handler
\* that uses the extraction carries an empty vector.
C16_EmptyExtractionFails ==
    ClientAnswered =>
        /\ EmptyRaw(RawOf(req.beh, ClientSaw)) =>
              /\ req.status = 500
              /\ req.embedding = <<>>
        /\ req.status = 200 => Len(req.embedding) > 0

C16_Witness ==
    /\ ClientAnswered
    /\ req.endpoint = "encode_inpainted"
    /\ req.beh = "list_list0"
    /\ req.status = 500
    /\ req.embedding = <<>>

\* C18: on both paths and for every kernel size, the result of a dilation
\* has the size of its argument and a foreground containing the
\* argument's foreground, the first time and when applied again.
C18_DilationGrows ==
    /\ dilate_call.pc \in {"once", "twice"} =>
          LET m == dilate_call.mask[1]
              d == dilate_call.out[1]
          IN /\ d.w = m.w /\ d.h = m.h
             /\ Foreground(m) \subseteq Foreground(d)
    /\ dilate_call.pc = "twice" =>
          LET d == dilate_call.out[1]
              dd == dilate_call.again[1]
          IN /\ dd.w = d.w /\ dd.h = d.h
             /\ Foreground(d) \subseteq Foreground(dd)

C18_Witness ==
    /\ dilate_call.pc = "twice"
    /\ dilate_call.cv2_ok
    /\ dilate_call.kernel_size = 2
    /\ Foreground(dilate_call.mask[1]) # {}
    /\ Foreground(dilate_call.mask[1]) # Foreground(dilate_call.out[1])
    /\ Foreground(dilate_call.out[1]) # Foreground(dilate_call.again[1])

\* C19: for every mask and every kernel size k the fallback returns the
\* mask that is 255 at p exactly when the k x k window whose cell k \div 2
\* lies on p holds a foreground pixel of the image, and 0 elsewhere.
C19_FallbackIsSquareDilation ==
    (dilate_call.pc \in {"once", "twice"} /\ ~dilate_call.cv2_ok) =>
        LET m == dilate_call.mask[1]
            k == dilate_call.kernel_size
            c == k \div 2
            d == dilate_call.out[1]
        IN /\ d.w = m.w /\ d.h = m.h
           /\ DOMAIN d.v = PixelsOf(m.w, m.h)
           /\ \A p \in PixelsOf(m.w, m.h) :
                 d.v[p] = IF \E i \in 0 .. k - 1, j \in 0 .. k - 1 :
                               /\ <<p[1] + i - c, p[2] + j - c>> \in PixelsOf(m.w, m.h)
                               /\ m.v[<<p[1] + i - c, p[2] + j - c>>] > 0
                          THEN 255 ELSE 0

C19_Witness ==
    /\ dilate_call.pc = "once"
    /\ ~dilate_call.cv2_ok
    /\ dilate_call.kernel_size = 4
    /\ LET m == dilate_call.mask[1]
       IN /\ m.w = MaskW /\ m.h = MaskH
          /\ Foreground(m) = {<<m.w - 1, m.h - 1>>}
          /\ dilate_call.out[1].v[<<0, 0>>] = 0
          /\ dilate_call.out[1].v[<<m.w - 2, 0>>] = 255

\* The orders in which a list can be handed over.
Reorderings(seq) ==
    { [i \in 1 .. Len(seq) |-> seq[f[i]]] :
        f \in { g \in [1 .. Len(seq) -> 1 .. Len(seq)] :
                  \A i, j \in 1 .. Len(seq) : g[i] = g[j] => i = j } }

\* The composite mask of the request has been built from at least one mask.
Composed == req.inpaint_done /\ req.union_mask # None /\ req.masks # <<>>

\* C17: the composite mask is the same for every order of the per-instance
\* masks (on either dilation path), and every pixel that is nonzero in a
\* per-instance mask is foreground in it.
C17_ComposeOrderFree ==
    Composed =>
        /\ \A masks \in Reorderings(req.masks), cv2_ok \in BOOLEAN :
              ComposeMask(req.img[1], masks, cv2_ok) = req.union_mask[1]
        /\ \A i \in 1 .. Len(req.masks) :
              Foreground(req.masks[i]) \subseteq Foreground(req.union_mask[1])

C17_Witness ==
    /\ Composed
    /\ Len(req.masks) = 2
    /\ Foreground(req.masks[1]) # {}
    /\ Foreground(req.masks[2]) = {}
    /\ Foreground(req.union_mask[1]) # Foreground(req.masks[1])
    /\ Foreground(req.union_mask[1]) # PixelsOf(req.img[1].w, req.img[1].h)

\* C20: the composite mask has the width and height of the decoded image
\* and holds only the values 0 and 255, whatever the per-instance masks.
C20_CompositeBinary ==
    (req.inpaint_done /\ req.union_mask # None) =>
        LET m == req.union_mask[1]
            img == req.img[1]
        IN /\ m.w = img.w
           /\ m.h = img.h
           /\ DOMAIN m.v = PixelsOf(img.w, img.h)
           /\ \A p \in PixelsOf(img.w, img.h) : m.v[p] \in {0, 255}

C20_Witness ==
    /\ Composed
    /\ \E i \in 1 .. Len(req.masks) :
          \E p \in PixelsOf(req.img[1].w, req.img[1].h) :
              req.masks[i].v[p] \notin {0, 255}
    /\ \E p, q \in PixelsOf(req.img[1].w, req.img[1].h) :
          req.union_mask[1].v[p] = 0 /\ req.union_mask[1].v[q] = 255

\* An ROI was computed for the request: the composite mask had foreground
\* and the inpainting pipeline is loaded.
RoiComputed == req.inpaint_done /\ req.inpaint.roi # None /\ req.union_mask # None

\* C21: the ROI (x1, y1, x2, y2) computed from a composite mask with
\* foreground satisfies 0 <= x1 < x2 <= W and 0 <= y1 < y2 <= H.
C21_RoiInsideNonDegenerate ==
    RoiComputed =>
        LET roi == req.inpaint.roi[1]
            img == req.img[1]
        IN /\ 0 <= roi[1] /\ roi[1] < roi[3] /\ roi[3] <= img.w
           /\ 0 <= roi[2] /\ roi[2] < roi[4] /\ roi[4] <= img.h

\* C22: every foreground pixel (x, y) of the composite mask lies inside the
\* ROI: x1 <= x < x2 and y1 <= y < y2.
C22_RoiEnclosesForeground ==
    RoiComputed =>
        LET roi == req.inpaint.roi[1]
        IN \A p \in Foreground(req.union_mask[1]) :
              /\ roi[1] <= p[1] /\ p[1] < roi[3]
              /\ roi[2] <= p[2] /\ p[2] < roi[4]

\* C23: on every side where the image border does not clamp it, the crop
\* [x1, x2) x [y1, y2) ends exactly pad = floor(0.12 * max(W, H)) pixels
\* beyond the outermost foreground pixel of that side.
C23_RoiPaddedAlike ==
    RoiComputed =>
        LET roi == req.inpaint.roi[1]
            img == req.img[1]
            fg == Foreground(req.union_mask[1])
            xs == {p[1] : p \in fg}
            ys == {p[2] : p \in fg}
            pad == (12 * (IF img.w > img.h THEN img.w ELSE img.h)) \div 100
        IN /\ SetMin(xs) - pad >= 0 => roi[1] = SetMin(xs) - pad
           /\ SetMin(ys) - pad >= 0 => roi[2] = SetMin(ys) - pad
           /\ SetMax(xs) + pad <= img.w - 1 => roi[3] - 1 = SetMax(xs) + pad
           /\ SetMax(ys) + pad <= img.h - 1 => roi[4] - 1 = SetMax(ys) + pad

\* Instances of the answer given to _get_yolo_person_masks that the rule
\* of the claim accepts: class in the allowlist, confidence strictly above
\* 0.5 for person and 0.4 for the other classes.
RuleAccepts(inst) ==
    /\ inst.cls \in {0, 24, 25, 26, 28, 67, 73, 76}
    /\ inst.conf > (IF inst.cls = 0 THEN 50 ELSE 40)

\* C24: without an exception, the list returned by _get_yolo_person_masks
\* has exactly one mask of the image's size per instance that the rule
\* accepts, with per-instance masks and with boxes alike.
C24_OneMaskPerAccepted ==
    detect_call.pc = "returned" =>
        LET det == detect_call.det[1]
            out == detect_call.out[1]
            img == detect_call.img[1]
        IN /\ ~out.raised
           /\ Len(out.masks) =
                 Cardinality({i \in 1 .. Len(det.insts) : RuleAccepts(det.insts[i])})
           /\ \A i \in 1 .. Len(out.masks) :
                 out.masks[i].w = img.w /\ out.masks[i].h = img.h

C24_Witness ==
    /\ detect_call.pc = "returned"
    /\ ~detect_call.det[1].has_masks
    /\ Len(detect_call.det[1].insts) = 2
    /\ detect_call.det[1].insts[1].cls = 24
    /\ detect_call.det[1].insts[1].conf = 41
    /\ detect_call.det[1].insts[2].cls = 0
    /\ detect_call.det[1].insts[2].conf = 50
    /\ Len(detect_call.out[1].masks) = 1

\* C25: the mask synthesized for an accepted box is 255 exactly on the
\* image pixels with x1 <= x < x2 and y1 <= y < y2 and 0 elsewhere, also
\* for boxes with coordinates below 0 or beyond the image.
C25_BoxMaskIsBoxInImage ==
    ( /\ detect_call.pc = "returned"
      /\ ~detect_call.det[1].has_masks
      /\ Len(detect_call.det[1].insts) = 1
      /\ RuleAccepts(detect_call.det[1].insts[1]) ) =>
        LET b == detect_call.det[1].insts[1].shape.xyxy
            img == detect_call.img[1]
            out == detect_call.out[1]
        IN /\ Len(out.masks) = 1
           /\ \A p \in PixelsOf(img.w, img.h) :
                 out.masks[1].v[p] =
                     IF b[1] <= p[1] /\ p[1] < b[3] /\ b[2] <= p[2] /\ p[2] < b[4]
                     THEN 255 ELSE 0

\* Position of an external service in the pipeline.
StageRank(service) ==
    IF service = "detector" THEN 1 ELSE IF service = "sd_inpaint" THEN 2 ELSE 3

\* C26: in an /encode/inpainted request the external services are invoked
\* in the order detector, inpainting pipeline, embedding backend, each at
\* most once; the inpainting pipeline only after the detector has
\* returned and the embedding backend only after the inpainting stage has
\* returned.
C26_StagesInOrder ==
    req.endpoint = "encode_inpainted" =>
        /\ \A i, j \in 1 .. Len(req.trace) :
              i < j => StageRank(req.trace[i]) < StageRank(req.trace[j])
        /\ Range(req.trace) \subseteq {"detector", "sd_inpaint"} \cup Backends
        /\ "sd_inpaint" \in Range(req.trace) => req.detected /\ "detector" \in Range(req.trace)
        /\ (Range(req.trace) \cap Backends # {}) => req.inpaint_done /\ req.pc = "done"
        /\ req.pc \in {"detect", "inpaint"} => Range(req.trace) \cap Backends = {}

C26_Witness ==
    /\ Done
    /\ req.endpoint = "encode_inpainted"
    /\ req.trace = <<"detector", "sd_inpaint", "vitl14">>
    /\ req.inpaint.result # None
    /\ req.status = 200

\* C27: a request that decodes its upload opens the uploaded bytes and
\* converts them to RGB exactly once, also when the inpainting stage
\* returned None.
C27_DecodedOnce ==
    (Done /\ req.upload # None /\ req.decodes > 0) => req.decodes = 1

\* C29: when a request completes, no temporary file it created is left on
\* disk, whichever step raised.
C29_TempFilesDeleted ==
    Done => req.tmp_left = 0

\* C28: a successful /detect/people response carries one confidence score
\* per counted instance, and people_detected is true exactly when
\* people_count > 0, whatever the detector does in its two calls.
C28_ScoresMatchCount ==
    (Done /\ req.endpoint = "detect_people" /\ req.status = 200) =>
        LET resp == req.people[1]
        IN /\ Len(resp.confidence_scores) = resp.people_count
           /\ resp.people_detected <=> resp.people_count > 0

\* C30: a successful /inpaint/preview response has fallback true exactly
\* when inpaint_people_from_image_bytes returned None, and then carries
\* the JPEG of the RGB original; otherwise it carries the JPEG of the
\* inpainted composite; the returned image always has the input's size.
C30_PreviewFallbackFlag ==
    (Done /\ req.endpoint = "inpaint_preview" /\ req.status = 200) =>
        LET resp == req.preview[1]
            upload == req.upload[1]
        IN /\ resp.fallback <=> req.inpaint.result = None
           /\ resp.fallback => resp.processed_image = Jpeg(ConvertRGB(upload))
           /\ ~resp.fallback => resp.processed_image = Jpeg(req.inpaint.result[1])
           /\ resp.processed_image.w = upload.w
           /\ resp.processed_image.h = upload.h

C30_Witness ==
    /\ Done
    /\ req.endpoint = "inpaint_preview"
    /\ req.status = 200
    /\ ~req.preview[1].fallback
    /\ req.inpaint.result # None
    /\ req.preview[1].processed_image # Jpeg(ConvertRGB(req.upload[1]))

====
